---- MODULE Spec2Model ----
(***************************************************************************)
(* ReaclibRate: a TF1 with 7 * (numResonances + 1) parameters, seeded and  *)
(* fixed from physical inputs, evaluated as a sum of exponentials, and     *)
(* read back through the inverse formulas.                                 *)
(*                                                                         *)
(* Real numbers are exact symbolic values.  A value of kind "num" is       *)
(*     sg * PRODUCT over atoms a of a ^ (e[a] / 6)                          *)
(* where the atoms are the primes (so unsigned integers and the rationals  *)
(* -2/3, -3/2 are ordinary values), the numeric constants of the source    *)
(* (b_, d_, 11.6045, 4.2486) and the symbolic positive inputs (mu, S(0),   *)
(* resonance energies and strengths, temperatures, fitted values).  log,   *)
(* exp, pow, * and / are computed on that representation; what falls       *)
(* outside it is kept as an unevaluated term.  Two values that are equal   *)
(* here are equal as reals, which is the "floating-point tolerance" sense  *)
(* of the round-trip statements.                                           *)
(***************************************************************************)
EXTENDS Integers, FiniteSets, Sequences, TLC

\* Bounds of the model.
MaxRes == 2     \* numResonances ranges over 0..MaxRes
MaxZ == 2       \* z1, z2 range over 1..MaxZ
MaxFit == 1     \* fits in a run

----------------------------------------------------------------------------
\* Exact symbolic reals.

IsPrime(p) == p >= 2 /\ \A d \in 2..(p - 1) : p % d # 0

Primes == {p \in 2..(IF MaxZ > 3 THEN MaxZ ELSE 3) : IsPrime(p)}

Atoms ==
    {<<"p", p>> : p \in Primes}
    \cup {<<"B", 0>>, <<"D", 0>>, <<"K1", 0>>, <<"K2", 0>>}
    \cup {<<"mu", 0>>, <<"T", 0>>, <<"F", 0>>}
    \cup {<<"S", 1>>, <<"S", 2>>}
    \cup {<<"E", 1>>, <<"E", 2>>}
    \cup {<<"W", 1>>, <<"W", 2>>}

NoExp == [a \in Atoms |-> 0]

Num(sg, e) == [k |-> "num", sg |-> sg, e |-> IF sg = 0 THEN NoExp ELSE e]

Zero == Num(0, NoExp)
One == Num(1, NoExp)
NaN == [k |-> "nan"]

\* The positive real named by atom a.
Atom(a) == Num(1, [b \in Atoms |-> IF b = a THEN 6 ELSE 0])

RECURSIVE PrimeExp(_, _)
PrimeExp(n, p) == IF n > 0 /\ n % p = 0 THEN 1 + PrimeExp(n \div p, p) ELSE 0

\* The real value of the unsigned integer n.
IntReal(n) ==
    IF n = 0 THEN Zero
    ELSE Num(1, [a \in Atoms |-> IF a[1] = "p" THEN 6 * PrimeExp(n, a[2]) ELSE 0])

IsNum(x) == x.k = "num"

Neg(x) ==
    IF IsNum(x) THEN Num(0 - x.sg, x.e)
    ELSE IF x.k = "nan" THEN NaN
    ELSE [k |-> "neg", of |-> x]

Mul(x, y) ==
    IF x.k = "nan" \/ y.k = "nan" THEN NaN
    ELSE IF IsNum(x) /\ IsNum(y)
         THEN Num(x.sg * y.sg, [a \in Atoms |-> x.e[a] + y.e[a]])
    ELSE IF x = Zero \/ y = Zero THEN Zero
    ELSE IF x = One THEN y
    ELSE IF y = One THEN x
    ELSE [k |-> "mul", l |-> x, r |-> y]

Div(x, y) ==
    IF x.k = "nan" \/ y.k = "nan" \/ y = Zero THEN NaN
    ELSE IF IsNum(x) /\ IsNum(y)
         THEN Num(x.sg * y.sg, [a \in Atoms |-> x.e[a] - y.e[a]])
    ELSE IF x = Zero THEN Zero
    ELSE IF y = One THEN x
    ELSE [k |-> "div", l |-> x, r |-> y]

Add(x, y) ==
    IF x.k = "nan" \/ y.k = "nan" THEN NaN
    ELSE IF x = Zero THEN y
    ELSE IF y = Zero THEN x
    ELSE [k |-> "add", l |-> x, r |-> y]

\* pow(x, n/d) for integers n and d > 0.
Pow(x, n, d) ==
    IF x.k = "nan" THEN NaN
    ELSE IF IsNum(x) /\ x.sg = 1 /\ \A a \in Atoms : (x.e[a] * n) % d = 0
         THEN Num(1, [a \in Atoms |-> (x.e[a] * n) \div d])
    ELSE IF IsNum(x) /\ x.sg = 0 /\ n > 0 THEN Zero
    ELSE IF IsNum(x) /\ x.sg = -1 /\ d = 1
         THEN Num(IF n % 2 = 0 THEN 1 ELSE -1, [a \in Atoms |-> x.e[a] * n])
    ELSE [k |-> "pow", of |-> x, n |-> n, d |-> d]

Log(x) ==
    IF x.k = "nan" THEN NaN
    ELSE IF x = One THEN Zero
    ELSE IF IsNum(x) /\ x.sg = 1 THEN [k |-> "ln", of |-> x]
    ELSE IF IsNum(x) THEN NaN
    ELSE IF x.k = "exp" THEN x.of
    ELSE [k |-> "ln", of |-> x]

Exp(x) ==
    IF x.k = "nan" THEN NaN
    ELSE IF x = Zero THEN One
    ELSE IF x.k = "ln" THEN x.of
    ELSE [k |-> "exp", of |-> x]

\* Numeric constants of the source.
b_ == Atom(<<"B", 0>>)
d_ == Atom(<<"D", 0>>)
K1 == Atom(<<"K1", 0>>)
K2 == Atom(<<"K2", 0>>)
MinusOne == Neg(One)

----------------------------------------------------------------------------
\* The inherited TF1: a parameter vector, a fixed mask, and the indices an
\* operation has addressed.  Indices outside 0..npar-1 are ignored by the
\* setters and read as 0 by the getter.

NPar(n) == 7 * (n + 1)

InRange(tf, ipar) == ipar \in DOMAIN tf.par

NewTF1(npar) ==
    [par |-> [i \in 0..(npar - 1) |-> Zero],
     fix |-> [i \in 0..(npar - 1) |-> FALSE],
     acc |-> {}]

SetParameter(tf, ipar, value) ==
    IF InRange(tf, ipar)
    THEN [tf EXCEPT !.par[ipar] = value, !.acc = @ \cup {ipar}]
    ELSE [tf EXCEPT !.acc = @ \cup {ipar}]

FixParameter(tf, ipar, value) ==
    IF InRange(tf, ipar)
    THEN [tf EXCEPT !.par[ipar] = value, !.fix[ipar] = TRUE, !.acc = @ \cup {ipar}]
    ELSE [tf EXCEPT !.acc = @ \cup {ipar}]

GetParameter(par, ipar) == IF ipar \in DOMAIN par THEN par[ipar] ELSE Zero

----------------------------------------------------------------------------
\* The constructor.

\* InitResonance leaving a6 of the resonance set free.
InitResonance_A6Free(tf, i, mu) ==
    LET t0 == SetParameter(tf, 7 * (i + 1) + 0, Log(Mul(d_, Pow(mu, -3, 2))))
        t1 == SetParameter(t0, 7 * (i + 1) + 1, Neg(K1))
        t2 == FixParameter(t1, 7 * (i + 1) + 2, Zero)
        t3 == FixParameter(t2, 7 * (i + 1) + 3, Zero)
        t4 == FixParameter(t3, 7 * (i + 1) + 4, Zero)
        t5 == FixParameter(t4, 7 * (i + 1) + 5, Zero)
    IN  SetParameter(t5, 7 * (i + 1) + 6, Div(Neg(IntReal(3)), IntReal(2)))

\* Body of the loop over the resonance sets, for set i.
InitResonance(tf, i, mu) ==
    LET t0 == SetParameter(tf, 7 * (i + 1) + 0, Log(Mul(d_, Pow(mu, -3, 2))))
        t1 == SetParameter(t0, 7 * (i + 1) + 1, Neg(K1))
        t2 == FixParameter(t1, 7 * (i + 1) + 2, Zero)
        t3 == FixParameter(t2, 7 * (i + 1) + 3, Zero)
        t4 == FixParameter(t3, 7 * (i + 1) + 4, Zero)
        t5 == FixParameter(t4, 7 * (i + 1) + 5, Zero)
    IN  FixParameter(t5, 7 * (i + 1) + 6, Div(Neg(IntReal(3)), IntReal(2)))

RECURSIVE InitResonances(_, _, _, _)
InitResonances(tf, i, n, mu) ==
    IF i < n THEN InitResonances(InitResonance(tf, i, mu), i + 1, n, mu) ELSE tf

ReaclibRate(n, z1, z2, mu) ==
    LET t0 == NewTF1(NPar(n))
        t1 == SetParameter(t0, 0,
                  Log(Mul(b_, Pow(Mul(IntReal(z1 * z2), mu), 1, 3))))
        t2 == FixParameter(t1, 1, Zero)
        t3 == FixParameter(t2, 2,
                  Mul(Neg(K2), Pow(Mul(Pow(IntReal(z1 * z2), 2, 1), mu), 1, 3)))
        t4 == FixParameter(t3, 6, Div(Neg(IntReal(2)), IntReal(3)))
    IN  InitResonances(t4, 0, n, mu)

----------------------------------------------------------------------------
\* The setters.  Each returns the TF1 after the call.

\* SetSFactor fixing a3 along with a0.
SetSFactor_FixesA3(tf, z1, z2, mu, s0_MeVb) ==
    FixParameter(
        FixParameter(tf, 0,
            Log(Mul(Mul(b_, Pow(Mul(IntReal(z1 * z2), mu), 1, 3)), s0_MeVb))),
        3, Zero)

SetSFactor(tf, z1, z2, mu, s0_MeVb) ==
    FixParameter(tf, 0,
        Log(Mul(Mul(b_, Pow(Mul(IntReal(z1 * z2), mu), 1, 3)), s0_MeVb)))

\* SetResonance writing block resonanceId, the block the getters read.
SetResonance_GetterBlock(tf, n, mu, resonanceId, energy, strength) ==
    IF resonanceId <= n
    THEN LET t0 == FixParameter(tf, 7 * resonanceId + 0,
                       Log(Mul(Mul(d_, Pow(mu, -3, 2)), strength)))
         IN  FixParameter(t0, 7 * resonanceId + 1, Mul(Neg(K1), energy))
    ELSE tf

SetResonance(tf, n, mu, resonanceId, energy, strength) ==
    IF resonanceId <= n
    THEN LET t0 == FixParameter(tf, 7 * (resonanceId + 1) + 0,
                       Log(Mul(Mul(d_, Pow(mu, -3, 2)), strength)))
         IN  FixParameter(t0, 7 * (resonanceId + 1) + 1, Mul(Neg(K1), energy))
    ELSE tf

----------------------------------------------------------------------------
\* The getters.  Each returns its value and the indices it read.

\* GetReducedMass dividing by z1 z2 instead of its square.
GetReducedMass_NoSquare(par, z1, z2) ==
    [ret |-> Div(Pow(Div(GetParameter(par, 2), Neg(K2)), 3, 1),
                 Pow(IntReal(z1 * z2), 1, 1)),
     acc |-> {2}]

GetReducedMass(par, z1, z2) ==
    [ret |-> Div(Pow(Div(GetParameter(par, 2), Neg(K2)), 3, 1),
                 Pow(IntReal(z1 * z2), 2, 1)),
     acc |-> {2}]

\* GetSFactor taking the square root where SetSFactor took the cube root.
GetSFactor_SquareRoot(par, z1, z2) ==
    LET m == GetReducedMass(par, z1, z2) IN
    [ret |-> Div(Div(Exp(GetParameter(par, 0)), b_),
                 Pow(Mul(IntReal(z1 * z2), m.ret), 1, 2)),
     acc |-> m.acc \cup {0}]

GetSFactor(par, z1, z2) ==
    LET m == GetReducedMass(par, z1, z2) IN
    [ret |-> Div(Div(Exp(GetParameter(par, 0)), b_),
                 Pow(Mul(IntReal(z1 * z2), m.ret), 1, 3)),
     acc |-> m.acc \cup {0}]

GetResonanceEnergy(par, n, resonanceId) ==
    IF resonanceId > n THEN [ret |-> MinusOne, acc |-> {}]
    ELSE [ret |-> Div(GetParameter(par, 7 * resonanceId + 1), Neg(K1)),
          acc |-> {7 * resonanceId + 1}]

GetResonanceStrength(par, n, z1, z2, resonanceId) ==
    IF resonanceId > n THEN [ret |-> MinusOne, acc |-> {}]
    ELSE LET m == GetReducedMass(par, z1, z2) IN
         [ret |-> Div(Div(Exp(GetParameter(par, 7 * resonanceId + 0)), d_),
                      Pow(m.ret, -3, 2)),
          acc |-> m.acc \cup {7 * resonanceId + 0}]

----------------------------------------------------------------------------
\* Evaluate: par is the vector the caller passes, not the object's own.

\* The inner loop over j, from j up to 5, added onto component.
RECURSIVE EvalTerms(_, _, _, _, _)
EvalTerms(component, par, t9, i, j) ==
    IF j <= 5
    THEN EvalTerms(Add(component, Mul(par[7 * i + j], Pow(t9, 2 * j - 5, 3))),
                   par, t9, i, j + 1)
    ELSE component

\* The outer loop over the sets, from set i, added onto reacRate.
RECURSIVE EvalSets(_, _, _, _, _)
EvalSets(reacRate, n, par, t9, i) ==
    IF i < n + 1
    THEN LET c0 == Add(par[7 * i + 0], Mul(par[7 * i + 6], Log(t9)))
             component == EvalTerms(c0, par, t9, i, 1)
         IN  EvalSets([ret |-> Add(reacRate.ret, Exp(component)),
                       acc |-> reacRate.acc \cup {7 * i + j : j \in 0..6}],
                      n, par, t9, i + 1)
    ELSE reacRate

\* Evaluate looping over i < numResonances_, dropping the last set.
Evaluate_DropsLastSet(n, t9, par) ==
    EvalSets([ret |-> Zero, acc |-> {}], n - 1, par, t9, 0)

Evaluate(n, t9, par) == EvalSets([ret |-> Zero, acc |-> {}], n, par, t9, 0)

----------------------------------------------------------------------------
VARIABLES numResonances_, z1_, z2_, mu_amu_, params, fixed, op,
          lastS, lastSet, nfit

vars == <<numResonances_, z1_, z2_, mu_amu_, params, fixed, op,
          lastS, lastSet, nfit>>

\* lastS: the argument of the last SetSFactor call, <<>> before the first.
\* lastSet[id]: <<energy, strength>> of the last SetResonance call for the
\* resonance id in 0..numResonances_-1, <<>> before the first.
\* nfit: the number of fitter steps taken.
\* op: the last call, its arguments, its result and the indices it addressed.

\* The inputs: symbolic positive reals.
MuVals == {Atom(<<"mu", 0>>)}
SVals == {Atom(<<"S", 1>>), Atom(<<"S", 2>>)}
ResonanceVals == {<<Atom(<<"E", 1>>), Atom(<<"W", 1>>)>>,
                  <<Atom(<<"E", 2>>), Atom(<<"W", 2>>)>>}
TVals == {Atom(<<"T", 0>>)}
FitVals == {Atom(<<"F", 0>>), Log(Atom(<<"F", 0>>))}

TF1 == [par |-> params, fix |-> fixed, acc |-> {}]

Init ==
    \E n \in 0..MaxRes, z1 \in 1..MaxZ, z2 \in 1..MaxZ, mu \in MuVals :
        LET tf == ReaclibRate(n, z1, z2, mu) IN
        /\ numResonances_ = n
        /\ z1_ = z1
        /\ z2_ = z2
        /\ mu_amu_ = mu
        /\ params = tf.par
        /\ fixed = tf.fix
        /\ op = [name |-> "ReaclibRate", acc |-> tf.acc]
        /\ lastS = <<>>
        /\ lastSet = [i \in 0..(n - 1) |-> <<>>]
        /\ nfit = 0

Const == UNCHANGED <<numResonances_, z1_, z2_, mu_amu_>>

DoSetSFactor ==
    \E s \in SVals :
        LET tf == SetSFactor(TF1, z1_, z2_, mu_amu_, s) IN
        /\ params' = tf.par
        /\ fixed' = tf.fix
        /\ op' = [name |-> "SetSFactor", s |-> s, acc |-> tf.acc]
        /\ lastS' = s
        /\ UNCHANGED <<lastSet, nfit>>
        /\ Const

DoSetResonance ==
    \E id \in 0..(numResonances_ + 1), ew \in ResonanceVals :
        LET e == ew[1]
            w == ew[2]
            tf == SetResonance(TF1, numResonances_, mu_amu_, id, e, w)
        IN
        /\ params' = tf.par
        /\ fixed' = tf.fix
        /\ op' = [name |-> "SetResonance", id |-> id, energy |-> e,
                  strength |-> w, acc |-> tf.acc]
        /\ lastSet' = IF id < numResonances_
                      THEN [lastSet EXCEPT ![id] = <<e, w>>]
                      ELSE lastSet
        /\ UNCHANGED <<lastS, nfit>>
        /\ Const

Query(name, r) ==
    /\ op' = [name |-> name, ret |-> r.ret, acc |-> r.acc]
    /\ UNCHANGED <<params, fixed, lastS, lastSet, nfit>>
    /\ Const

QueryId(name, id, r) ==
    /\ op' = [name |-> name, id |-> id, ret |-> r.ret, acc |-> r.acc]
    /\ UNCHANGED <<params, fixed, lastS, lastSet, nfit>>
    /\ Const

DoGetReducedMass == Query("GetReducedMass", GetReducedMass(params, z1_, z2_))

DoGetSFactor == Query("GetSFactor", GetSFactor(params, z1_, z2_))

DoGetResonanceEnergy ==
    \E id \in 0..(numResonances_ + 1) :
        QueryId("GetResonanceEnergy", id,
                GetResonanceEnergy(params, numResonances_, id))

DoGetResonanceStrength ==
    \E id \in 0..(numResonances_ + 1) :
        QueryId("GetResonanceStrength", id,
                GetResonanceStrength(params, numResonances_, z1_, z2_, id))

\* The vectors a caller evaluates at: the object's own parameters, or a
\* trial vector differing from them in the free a3 of the non-resonant set.
ParVals == {params, [params EXCEPT ![3] = Atom(<<"F", 0>>)]}

DoEvaluate ==
    \E t9 \in TVals, par \in ParVals :
        LET r == Evaluate(numResonances_, t9, par) IN
        /\ op' = [name |-> "Evaluate", t9 |-> t9, par |-> par,
                  ret |-> r.ret, acc |-> r.acc]
        /\ UNCHANGED <<params, fixed, lastS, lastSet, nfit>>
        /\ Const

\* A fit by the external fitter: the free parameters take fitted values,
\* the fixed ones keep theirs.
FitStep ==
    /\ nfit < MaxFit
    /\ \E v \in FitVals :
        /\ params' = [i \in DOMAIN params |-> IF fixed[i] THEN params[i] ELSE v]
        /\ op' = [name |-> "Fit", acc |-> {i \in DOMAIN params : ~fixed[i]}]
    /\ nfit' = nfit + 1
    /\ UNCHANGED <<fixed, lastS, lastSet>>
    /\ Const

Next ==
    \/ DoSetSFactor
    \/ DoSetResonance
    \/ DoGetReducedMass
    \/ DoGetSFactor
    \/ DoGetResonanceEnergy
    \/ DoGetResonanceStrength
    \/ DoEvaluate

Spec == Init /\ [][Next]_vars

\* The setters and the reduced-mass getter interleaved with the fitter.
NextFit ==
    \/ DoSetSFactor
    \/ DoSetResonance
    \/ DoGetReducedMass
    \/ FitStep

SpecFit == Init /\ [][NextFit]_vars

----------------------------------------------------------------------------
\* Values and index sets the properties refer to.

ValidId(id) == 0 <= id /\ id < numResonances_

Indices == 0..(NPar(numResonances_) - 1)

\* a0 and a1 of resonance id as SetResonance documents them.
ResonanceA0(w) == Log(Mul(Mul(d_, Pow(mu_amu_, -3, 2)), w))
ResonanceA1(e) == Mul(Neg(K1), e)

\* a0 and a2 of the non-resonant set as documented.
NonResonantA0(s) ==
    Log(Mul(Mul(b_, Pow(Mul(IntReal(z1_ * z2_), mu_amu_), 1, 3)), s))
NonResonantA2 ==
    Mul(Neg(K2), Pow(Mul(Mul(IntReal(z1_ * z1_), IntReal(z2_ * z2_)), mu_amu_), 1, 3))

MinusTwoThirds == Neg(Div(IntReal(2), IntReal(3)))
MinusThreeHalves == Neg(Div(IntReal(3), IntReal(2)))

\* C1: after SetResonance(id, E, W) for a valid id, GetResonanceEnergy(id)
\* returns E and GetResonanceStrength(id) returns W.
C1_ResonanceRoundTrip ==
    /\ (op.name = "GetResonanceEnergy" /\ ValidId(op.id) /\ lastSet[op.id] # <<>>)
           => op.ret = lastSet[op.id][1]
    /\ (op.name = "GetResonanceStrength" /\ ValidId(op.id) /\ lastSet[op.id] # <<>>)
           => op.ret = lastSet[op.id][2]

\* C2: the two resonance getters return -1 for every id outside
\* 0..numResonances-1, id = numResonances included.
C2_InvalidIdSentinel ==
    (op.name \in {"GetResonanceEnergy", "GetResonanceStrength"} /\ ~ValidId(op.id))
        => op.ret = MinusOne

\* C3: SetResonance with an id outside 0..numResonances-1 changes no
\* parameter, no fixed flag, and addresses no index at all.
C3_InvalidIdNoOp ==
    [][(op'.name = "SetResonance" /\ ~ValidId(op'.id))
          => (params' = params /\ fixed' = fixed /\ op'.acc = {})]_vars

\* C4: SetResonance with a valid id fixes a0 and a1 of block id + 1 to
\* ln(D mu^(-3/2) W) and -11.6045 E and changes nothing else.
C4_SetResonanceFrame ==
    [][(op'.name = "SetResonance" /\ ValidId(op'.id))
          => LET base == 7 * (op'.id + 1) IN
             /\ params' = [params EXCEPT ![base] = ResonanceA0(op'.strength),
                                         ![base + 1] = ResonanceA1(op'.energy)]
             /\ fixed' = [fixed EXCEPT ![base] = TRUE, ![base + 1] = TRUE]
             /\ op'.acc = {base, base + 1}]_vars

C4_Witness ==
    /\ op.name = "SetResonance"
    /\ ValidId(op.id)
    /\ op.id >= 1
    /\ params[7 * (op.id + 1) + 1] = ResonanceA1(op.energy)
    /\ lastSet[0] # <<>>
    /\ lastSet[0] # lastSet[op.id]

\* C5: a6 of the non-resonant set is always fixed at -2/3 and a6 of every
\* resonance set is always fixed at -3/2.
C5_A6Fixed ==
    /\ fixed[6] /\ params[6] = MinusTwoThirds
    /\ \A i \in 0..(numResonances_ - 1) :
           fixed[7 * (i + 1) + 6] /\ params[7 * (i + 1) + 6] = MinusThreeHalves

C5_Witness ==
    /\ op.name = "SetResonance"
    /\ op.id = numResonances_
    /\ numResonances_ >= 1
    /\ lastS # <<>>
    /\ \A i \in 0..(numResonances_ - 1) : lastSet[i] # <<>>

\* C6: the fixed mask.  After construction exactly a1, a2, a6 of the
\* non-resonant set and a2..a6 of each resonance set are fixed; a3, a4, a5 of
\* the non-resonant set stay free at 0; a fixed entry never becomes free; a
\* resonance set by SetResonance has all seven coefficients fixed.
InitiallyFixed ==
    {1, 2, 6} \cup {7 * (i + 1) + j : i \in 0..(numResonances_ - 1), j \in 2..6}

C6_FixedMask ==
    /\ [](op.name = "ReaclibRate" => \A i \in Indices : fixed[i] <=> i \in InitiallyFixed)
    /\ [](\A j \in 3..5 : ~fixed[j] /\ params[j] = Zero)
    /\ [](\A id \in 0..(numResonances_ - 1) :
             lastSet[id] # <<>> => \A j \in 0..6 : fixed[7 * (id + 1) + j])
    /\ [][\A i \in Indices : fixed[i] => fixed'[i]]_vars

C6_Witness ==
    /\ numResonances_ >= 2
    /\ lastS # <<>>
    /\ lastSet[1] # <<>>
    /\ lastSet[0] = <<>>
    /\ ~fixed[7] /\ ~fixed[8]
    /\ \A j \in 0..6 : fixed[14 + j]

\* C7: GetReducedMass returns mu after construction and after any setter
\* calls and fitter steps, a2 of the non-resonant set keeping its
\* construction-time value.
C7_ReducedMassRoundTrip ==
    /\ params[2] = NonResonantA2
    /\ GetReducedMass(params, z1_, z2_).ret = mu_amu_
    /\ op.name = "GetReducedMass" => op.ret = mu_amu_

C7_Witness ==
    /\ op.name = "GetReducedMass"
    /\ op.ret = mu_amu_
    /\ nfit > 0
    /\ lastS # <<>>
    /\ z1_ * z2_ > 1
    /\ \E i \in 0..(numResonances_ - 1) : lastSet[i] # <<>>

\* C8: after SetSFactor(s), a0 of the non-resonant set is fixed at
\* ln(B (z1 z2 mu)^(1/3) s) and GetSFactor returns s, also after later
\* SetResonance calls.
C8_SFactorRoundTrip ==
    lastS # <<>> =>
        /\ fixed[0]
        /\ params[0] = NonResonantA0(lastS)
        /\ op.name = "GetSFactor" => op.ret = lastS

C8_Witness ==
    /\ op.name = "GetSFactor"
    /\ lastS # <<>>
    /\ op.ret = lastS
    /\ z1_ * z2_ > 1
    /\ \E i \in 0..(numResonances_ - 1) : lastSet[i] # <<>>

\* The rate as the sum over the sets 0..n of
\* exp(a0 + a6 ln(t9) + SUM j = 1..5 of aj t9^((2j-5)/3)).
RECURSIVE SumTerms(_, _, _, _)
SumTerms(par, t9, i, j) ==
    IF j = 0 THEN Add(par[7 * i], Mul(par[7 * i + 6], Log(t9)))
    ELSE Add(SumTerms(par, t9, i, j - 1),
             Mul(par[7 * i + j], Pow(t9, 2 * j - 5, 3)))

RECURSIVE SumSets(_, _, _)
SumSets(par, t9, i) ==
    IF i < 0 THEN Zero
    ELSE Add(SumSets(par, t9, i - 1), Exp(SumTerms(par, t9, i, 5)))

\* C9: Evaluate changes neither the parameters nor the fixed mask, reads
\* exactly the indices of the sets 0..numResonances of the vector passed in,
\* and returns the sum of one exponential per set, a function of (t9, par).
C9_EvaluatePure ==
    [][op'.name = "Evaluate"
          => /\ params' = params
             /\ fixed' = fixed
             /\ op'.acc = Indices
             /\ op'.ret = SumSets(op'.par, op'.t9, numResonances_)]_vars

C9_Witness ==
    /\ op.name = "Evaluate"
    /\ op.par # params
    /\ numResonances_ >= 1
    /\ lastS # <<>>
    /\ op.ret.k = "add"

\* C10: every index an operation reads or writes lies in
\* 0 .. 7 * (numResonances + 1) - 1.
C10_IndexSafety == op.acc \subseteq Indices
====
